---------------------------- MODULE Spec2Model ----------------------------
(***************************************************************************)
(* mqtt2sql: the MQTT-to-SQL bridge of src/mqtt2sql.py as a state machine. *)
(*                                                                         *)
(* Threads: the main thread (Mqtt2Sql.__init__, mqtt_connect,              *)
(* wait_for_connect, loop_forever and the callbacks on_connect and         *)
(* on_message that mqttc.loop() runs), paho's network thread between       *)
(* loop_start() and loop_stop(), and one write2sql thread per dispatched   *)
(* message.  The broker, the storage backend and the operating system      *)
(* (signals) are the environment: their answers are drawn with \E.         *)
(***************************************************************************)
EXTENDS Integers, Sequences, FiniteSets, Bags, TLC

(***************************************************************************)
(* Bounds of the model.                                                    *)
(***************************************************************************)
MaxMsgs == 2                  \* inbound messages delivered in one run
MaxConnectionRetry == 2       \* args.sql_connection_retry
MaxTransactionRetry == 2      \* args.sql_transaction_retry
MaxRetryBudget == 4           \* largest args.sql_connection_retry of BudgetSpec

(***************************************************************************)
(* Program constants.                                                      *)
(***************************************************************************)
OK == 0                       \* ExitCode.OK
MISSING_MODULE == 1           \* ExitCode.MISSING_MODULE
MQTT_CONNECTION_ERROR == 2    \* ExitCode.MQTT_CONNECTION_ERROR
SQL_CONNECTION_ERROR == 3     \* ExitCode.SQL_CONNECTION_ERROR
SIGINT == 2                   \* signal.SIGINT
SIGTERM == 15                 \* signal.SIGTERM
MQTT_ERR_SUCCESS == 0         \* paho return codes used by the source
MQTT_ERR_NO_CONN == 4
MQTT_ERR_CONN_REFUSED == 5
MQTT_ERR_CONN_LOST == 7
ER_CANT_CONNECT == 2005       \* the connect error code that ends the retries
ER_CON_COUNT_ERROR == 1040    \* a connect error code that is retried
ER_LOCK_WAIT_TIMEOUT == 1205  \* one of the retryable MySQL codes
ER_PARSE_ERROR == 1064        \* a MySQL code that is not retryable
PollStep == 10                \* wait_for_connect: timeout = connect_timeout/10
sql_connection_retry_start_delay == 1

\* The MySQL error codes write2sql retries a transaction on.
RetryCodes == {1040, 1205, 1213}

\* --mqtt-connect-timeout values: a multiple of 10 and one that is not.
ConnectTimeouts == {20, 25}
SqlTypes == {"mysql", "sqlite"}

\* --sql-max-connection values: one that lets a single write2sql thread run
\* at a time and one that lets two run together.
Capacities == {1, 2}

\* Configured topic filters, the exclusion list, and the filter the broker
\* routes each topic by.
mqtt_topic == {"a/#", "b/#"}
mqtt_exclude_topic == {"b/2"}
FilterOf(topic) == IF topic \in {"b/1", "b/2"} THEN "b/#" ELSE "a/#"

\* The inbound messages the broker may deliver: topic, payload, qos, retain.
Messages ==
  { [topic |-> "a/1", payload |-> "p1", qos |-> 0, retain |-> FALSE],
    [topic |-> "a/1", payload |-> "p2", qos |-> 1, retain |-> TRUE],
    [topic |-> "b/1", payload |-> "p1", qos |-> 0, retain |-> FALSE],
    [topic |-> "b/2", payload |-> "p1", qos |-> 0, retain |-> FALSE] }

(***************************************************************************)
(* Python values that reach sys.exit(): an int, a str or None.             *)
(***************************************************************************)
PyInt(n) == [t |-> "int", n |-> n, s |-> ""]
PyStr(s) == [t |-> "str", n |-> 0, s |-> s]

\* sys.exit(arg) in the main thread: the status the process ends with.  An
\* int is the status, any other object is printed and the status is 1.
SysExitStatus(arg) == IF arg.t = "int" THEN arg.n % 256 ELSE 1

\* SignalHandler.exitus(self, status=0, message="end"): the status handed to
\* sys.exit().
exitus(self_, status, message) ==
  IF status.t = "int" /\ status.n \in {SIGINT, SIGTERM} THEN PyInt(0) ELSE status

\* The call SignalHandler.exitus(code, text) on the class: the first
\* positional argument binds to self, the second to status, and message
\* keeps its default.
ClassExitus(code, text) == exitus(PyInt(code), PyStr(text), PyStr("end"))

\* SignalHandler._exitus(self, signal_, frame_): the installed handler, a
\* bound call self.exitus(signal_, text).
HandlerExitus(signal_) == exitus(PyStr("SIG"), PyInt(signal_), PyStr("signal"))

(***************************************************************************)
(* State.                                                                  *)
(***************************************************************************)
VARIABLES
  args,             \* self.args_: the storage options
  published,        \* the messages the broker's publishers send
  legacy,           \* the process of the legacy script src/mqtt2mysql.py
  exit_code,        \* self.exit_code, the shared exit flag
  connected,        \* self.connected
  connect_rc,       \* self.connect_rc
  mqttc,            \* self.mqttc: "unset", "None" or "client"
  pool,             \* value of self.pool_sqlconnections (free permits)
  pc,               \* position of the main thread
  timeout,          \* wait_for_connect's local, in tenths
  ret,              \* loop_forever's local ret
  net,              \* the transport: "none", "tcp" (CONNACK awaited), "up", "down"
  net_thread,       \* paho's network thread runs (loop_start .. loop_stop)
  reconnected,      \* the transport's connection was made by mqttc.reconnect()
  subscribed,       \* topic filters the broker holds for this session
  msgs,             \* the messages on_message was called with, in order
  writers,          \* the write2sql thread of each message
  table,            \* the destination table: a bag of rows
  last_committed,   \* per topic, the message of the write that committed last
  sigterm,          \* the SIGTERM of os.kill(os.getpid(), ...) is pending
  exit_status,      \* status the main thread left with (NotExited before)
  exit_cause        \* why the main thread left

vars == << args, published, legacy, exit_code, connected, connect_rc, mqttc,
           pool, pc, timeout, ret, net, net_thread, reconnected,
           subscribed, msgs, writers, table, last_committed, sigterm,
           exit_status, exit_cause >>

NotExited == 0 - 1
NoError == 0 - 1              \* error_code before any connect attempt failed
Topics == {message.topic : message \in Messages}
Ids == 1 .. MaxMsgs

\* A write2sql thread that has not been created.  released counts its
\* release() calls and txn_attempts its passes through the transaction
\* loop's try statement; error_code is the one of the connect loop's except
\* block, kept by a thread that gave up there.  txn_error is the class of
\* the error its transaction attempt raised, rollback tells that it called
\* db_connection.rollback(), and txn_slept that it slept the transaction
\* delay.
NoWriter ==
  [ pc |-> "idle", connection_retry |-> 0, connection_delay |-> 0,
    error_code |-> NoError, transaction_retry |-> 0, db_connection |-> "None",
    released |-> 0, txn_attempts |-> 0, txn_error |-> "", rollback |-> FALSE,
    txn_slept |-> FALSE, how |-> "" ]

\* The legacy script before its mqttc.connect(): the position of its one
\* thread, its rc, whether the broker holds its subscription, the name db of
\* the last on_message call ("unbound", "open" or "closed"), the messages
\* on_message was called with, the destination table, the call that raised
\* in the last on_message ("none" if none did), whether that on_message
\* called db.rollback(), and how the process ended.
LegacyStart ==
  [ pc |-> "connect", rc |-> 0, subscribed |-> FALSE, db |-> "unbound",
    msgs |-> << >>, table |-> {}, error |-> "none", rollback |-> FALSE,
    exit_status |-> NotExited, exit_cause |-> "none" ]

\* The storage options of the command line.
Args ==
  [ sql_type : SqlTypes,
    sql_max_connection : Capacities,
    sql_connection_retry : {MaxConnectionRetry},
    sql_transaction_retry : {MaxTransactionRetry} ]

\* The storage options with every retry budget from 0 on.
ArgsBudgets ==
  [ sql_type : SqlTypes,
    sql_max_connection : Capacities,
    sql_connection_retry : 0 .. MaxRetryBudget,
    sql_transaction_retry : 0 .. MaxTransactionRetry ]

\* Mqtt2Sql.__init__ up to the call of mqtt_connect(), with the options
\* args_ and a broker that relays the messages published_; the
\* SignalHandler is installed before.
InitWith(args_, published_) ==
  /\ args = args_
  /\ published = published_
  /\ legacy = LegacyStart
  /\ exit_code = OK
  /\ connected = FALSE
  /\ connect_rc = 0
  /\ mqttc = "unset"
  /\ pool = args.sql_max_connection
  /\ pc = "mqtt_connect"
  /\ timeout = 0
  /\ ret = MQTT_ERR_SUCCESS
  /\ net = "none"
  /\ net_thread = FALSE
  /\ reconnected = FALSE
  /\ subscribed = {}
  /\ msgs = << >>
  /\ writers = [i \in Ids |-> NoWriter]
  /\ table = EmptyBag
  /\ last_committed = [topic \in Topics |-> {}]
  /\ sigterm = FALSE
  /\ exit_status = NotExited
  /\ exit_cause = "none"

Init == \E args_ \in Args : InitWith(args_, Messages)

(***************************************************************************)
(* The main thread.                                                        *)
(***************************************************************************)
\* The main thread raises SystemExit(arg): it leaves with that status.  The
\* interpreter then waits for the write2sql threads, which run on.  The
\* locals of the frames it unwinds are gone, and the transport, which no
\* callback serves any more, is followed no further.
MainExit(arg, cause) ==
  /\ pc' = "exited"
  /\ exit_status' = SysExitStatus(arg)
  /\ exit_cause' = cause
  /\ timeout' = 0
  /\ ret' = MQTT_ERR_SUCCESS
  /\ net' = "none"
  /\ net_thread' = FALSE
  /\ reconnected' = FALSE
  /\ subscribed' = {}

\* on_connect with a subscription made on the first connection only: a
\* variant the re-subscription property must tell apart.
on_connect_subscribes_once(return_code) ==
  IF MQTT_ERR_SUCCESS = return_code /\ ~connected THEN mqtt_topic ELSE {}

\* on_connect(client, userdata, message, return_code): the fields it sets
\* and the filters it subscribes to.
on_connect_subscribes(return_code) ==
  IF MQTT_ERR_SUCCESS = return_code THEN mqtt_topic ELSE {}

on_connect(return_code) ==
  /\ connected' = (MQTT_ERR_SUCCESS = return_code)
  /\ connect_rc' = return_code
  /\ subscribed' = subscribed \cup on_connect_subscribes(return_code)

\* mqtt_connect() up to the first test of wait_for_connect's loop:
\* mqttc.connect() raises, and __init__ ends the process, or it returns and
\* the CONNACK is awaited.  self.connect_timeout is read here only, so the
\* option's value is drawn here.
MqttConnect ==
  /\ pc = "mqtt_connect"
  /\ \/ /\ MainExit(ClassExitus(MQTT_CONNECTION_ERROR, "failed"),
                    "initial_connect")
        /\ mqttc' = "None"
     \/ /\ net' = "tcp"
        /\ net_thread' = TRUE
        /\ \E connect_timeout \in ConnectTimeouts :
              timeout' = connect_timeout
        /\ pc' = "wait_for_connect"
        /\ UNCHANGED << mqttc, ret, reconnected, subscribed, exit_status,
                        exit_cause >>
  /\ UNCHANGED << args, published, legacy, exit_code, connected, connect_rc, pool, msgs, writers,
                  table, last_committed, sigterm >>

\* paho's network thread reads the CONNACK and calls on_connect.  A broker
\* that refuses closes the connection.
NetConnack ==
  /\ net_thread
  /\ net = "tcp"
  /\ \E rc \in {MQTT_ERR_SUCCESS, MQTT_ERR_CONN_REFUSED} :
        /\ on_connect(rc)
        /\ net' = IF rc = MQTT_ERR_SUCCESS THEN "up" ELSE "down"
  /\ UNCHANGED << args, published, legacy, exit_code, mqttc, pool, pc, timeout, ret, net_thread,
                  reconnected, msgs, writers, table, last_committed, sigterm, exit_status,
                  exit_cause >>

\* wait_for_connect(connect_timeout): what it returns once its loop ends.
wait_for_connect_result(t) == 0 /= t

\* One evaluation of wait_for_connect's loop condition: a sleep and a
\* decrement, or the return into mqtt_connect and __init__, which leaves on
\* a return code other than ExitCode.OK and enters loop_forever otherwise.
WaitForConnect ==
  /\ pc = "wait_for_connect"
  /\ IF ~connected /\ timeout > 0
       THEN /\ timeout' = timeout - PollStep
            /\ UNCHANGED << mqttc, pc, ret, net, net_thread, reconnected,
                            subscribed, exit_status, exit_cause >>
       ELSE IF ~wait_for_connect_result(timeout)
              THEN \* return None, self.connect_rc: no loop_stop()
                   /\ mqttc' = "None"
                   /\ IF connect_rc /= OK
                        THEN MainExit(ClassExitus(connect_rc, "failed"),
                                      "initial_connect")
                        ELSE /\ pc' = "loop"
                             /\ timeout' = 0
                             /\ UNCHANGED << ret, net, net_thread, reconnected,
                                             subscribed, exit_status,
                                             exit_cause >>
              ELSE \* loop_stop(); return mqttc, ExitCode.OK
                   /\ mqttc' = "client"
                   /\ net_thread' = FALSE
                   /\ pc' = "loop"
                   /\ timeout' = 0
                   /\ UNCHANGED << ret, net, reconnected, subscribed,
                                   exit_status, exit_cause >>
  /\ UNCHANGED << args, published, legacy, exit_code, connected, connect_rc, pool, msgs, writers,
                  table, last_committed, sigterm >>

\* on_message without the exclusion test: a variant the exclusion property
\* must tell apart.
ExcludedNever(topic) == FALSE

\* message.topic in self.mqtt_exclude_topic (mqtt_exclude_topic is a list)
Excluded(topic) == topic \in mqtt_exclude_topic

\* An acquire() that never blocks: a variant the capacity property must tell
\* apart.
AcquireReadyAlways(p) == TRUE

\* An acquire() that lets one caller too many pass: a variant the
\* out-of-order property must tell apart.
AcquireReadyOneMore(p) == p >= 0

\* self.pool_sqlconnections.acquire() returns only when a permit is free.
AcquireReady(p) == p > 0

\* A Thread object that was created but not started: a variant the start
\* order property must tell apart.
NotStartedWriter == NoWriter

\* The write2sql thread as Thread(target=self.write2sql).start() leaves it.
StartedWriter == [NoWriter EXCEPT !.pc = "start"]

\* mqttc.loop() on self.mqttc = None: the AttributeError is caught, logged
\* and slept on; ret keeps MQTT_ERR_SUCCESS.
LoopNone ==
  /\ pc = "loop"
  /\ mqttc = "None"
  /\ pc' = "check"
  /\ ret' = MQTT_ERR_SUCCESS
  /\ UNCHANGED << args, published, legacy, exit_code, connected, connect_rc, mqttc, pool,
                  timeout, net, net_thread, reconnected, subscribed, msgs,
                  writers, table, last_committed, sigterm, exit_status, exit_cause >>

\* mqttc.loop() with nothing to deliver: it returns MQTT_ERR_SUCCESS.
LoopQuiet ==
  /\ pc = "loop"
  /\ mqttc = "client"
  /\ net \in {"tcp", "up"}
  /\ pc' = "check"
  /\ ret' = MQTT_ERR_SUCCESS
  /\ UNCHANGED << args, published, legacy, exit_code, connected, connect_rc, mqttc, pool,
                  timeout, net, net_thread, reconnected, subscribed, msgs,
                  writers, table, last_committed, sigterm, exit_status, exit_cause >>

\* mqttc.loop() on the client raises an exception: it is caught, logged and
\* slept on, and ret keeps its value.
LoopRaises ==
  /\ pc = "loop"
  /\ mqttc = "client"
  /\ pc' = "check"
  /\ UNCHANGED << args, published, legacy, exit_code, connected, connect_rc, mqttc, pool,
                  timeout, ret, net, net_thread, reconnected, subscribed, msgs,
                  writers, table, last_committed, sigterm, exit_status,
                  exit_cause >>

\* mqttc.loop() reads the CONNACK: on_connect runs, and loop() returns the
\* refusal as an error code.
LoopConnack ==
  /\ pc = "loop"
  /\ mqttc = "client"
  /\ net = "tcp"
  /\ \E rc \in {MQTT_ERR_SUCCESS, MQTT_ERR_CONN_REFUSED} :
        /\ on_connect(rc)
        /\ net' = IF rc = MQTT_ERR_SUCCESS THEN "up" ELSE "down"
        /\ ret' = rc
  /\ pc' = "check"
  /\ UNCHANGED << args, published, legacy, exit_code, mqttc, pool, timeout, net_thread,
                  reconnected, msgs, writers, table, last_committed, sigterm, exit_status,
                  exit_cause >>

\* mqttc.loop() finds the connection lost.  The client connects with
\* clean_session=True: the broker drops the session's subscriptions.
LoopConnLost ==
  /\ pc = "loop"
  /\ mqttc = "client"
  /\ net \in {"up", "down"}
  /\ net' = "down"
  /\ reconnected' = FALSE
  /\ subscribed' = {}
  /\ ret' = MQTT_ERR_CONN_LOST
  /\ pc' = "check"
  /\ UNCHANGED << args, published, legacy, exit_code, connected, connect_rc, mqttc, pool,
                  timeout, net_thread, msgs, writers, table, last_committed, sigterm,
                  exit_status, exit_cause >>

\* mqttc.loop() on a client without a connection returns MQTT_ERR_NO_CONN.
LoopError ==
  /\ pc = "loop"
  /\ mqttc = "client"
  /\ net = "down"
  /\ ret' = MQTT_ERR_NO_CONN
  /\ pc' = "check"
  /\ UNCHANGED << args, published, legacy, exit_code, connected, connect_rc, mqttc, pool,
                  timeout, net, net_thread, reconnected, subscribed, msgs,
                  writers, table, last_committed, sigterm, exit_status, exit_cause >>

\* mqttc.loop() reads a PUBLISH of a subscribed topic and calls
\* on_message(client, userdata, message), here up to the acquire().
OnMessage ==
  /\ pc = "loop"
  /\ mqttc = "client"
  /\ net = "up"
  /\ Len(msgs) < MaxMsgs
  /\ \E message \in published :
        /\ FilterOf(message.topic) \in subscribed
        /\ msgs' = Append(msgs, message)
        /\ IF exit_code /= OK
             THEN MainExit(PyInt(exit_code), "exit_flag")
             ELSE /\ IF Excluded(message.topic)
                       THEN pc' = "check" /\ ret' = MQTT_ERR_SUCCESS
                       ELSE pc' = "acquire" /\ ret' = ret
                  /\ UNCHANGED << timeout, net, net_thread, reconnected,
                                  subscribed, exit_status, exit_cause >>
  /\ UNCHANGED << args, published, legacy, exit_code, connected, connect_rc, mqttc, pool,
                  writers, table, last_committed, sigterm >>

\* on_message: acquire() returns, the write2sql thread is started, and
\* loop() returns MQTT_ERR_SUCCESS.
Acquire ==
  /\ pc = "acquire"
  /\ AcquireReady(pool)
  /\ pool' = pool - 1
  /\ writers' = [writers EXCEPT ![Len(msgs)] = StartedWriter]
  /\ pc' = "check"
  /\ ret' = MQTT_ERR_SUCCESS
  /\ UNCHANGED << args, published, legacy, exit_code, connected, connect_rc, mqttc, timeout, net,
                  net_thread, reconnected, subscribed, msgs, table, last_committed, sigterm,
                  exit_status, exit_cause >>

\* A classification that also reconnects on MQTT_ERR_NO_CONN: a variant the
\* classification property must tell apart.
loop_outcome_lenient(ret_) ==
  IF ret_ = MQTT_ERR_SUCCESS THEN "continue"
  ELSE IF ret_ \in {MQTT_ERR_CONN_LOST, MQTT_ERR_NO_CONN} THEN "reconnect"
  ELSE "fatal"

\* What loop_forever does with the value of ret after an iteration: the
\* inner loop goes on, a reconnect is attempted, or the process ends.
loop_outcome(ret_) ==
  IF ret_ = MQTT_ERR_SUCCESS THEN "continue"
  ELSE IF ret_ = MQTT_ERR_CONN_LOST THEN "reconnect"
  ELSE "fatal"

\* loop_forever after mqttc.loop(): the exit flag, then the inner loop's
\* condition (userdata['haveresponse'] is never set), and after the inner
\* loop the way to reconnect() on MQTT_ERR_CONN_LOST and the end on any
\* other code.
Check ==
  /\ pc = "check"
  /\ IF exit_code /= OK
       THEN MainExit(PyInt(exit_code), "exit_flag")
       ELSE IF loop_outcome(ret) = "continue"
         THEN /\ pc' = "loop"
              /\ UNCHANGED << timeout, ret, net, net_thread, reconnected,
                              subscribed, exit_status, exit_cause >>
       ELSE IF loop_outcome(ret) = "reconnect"
         THEN /\ pc' = "reconnect"
              /\ UNCHANGED << timeout, ret, net, net_thread, reconnected,
                              subscribed, exit_status, exit_cause >>
         ELSE MainExit(ClassExitus(MQTT_CONNECTION_ERROR, "failed"), "loop_rc")
  /\ UNCHANGED << args, published, legacy, exit_code, connected, connect_rc, mqttc, pool, msgs,
                  writers, table, last_committed, sigterm >>

\* self.mqttc.reconnect() and the way back to mqttc.loop(): reconnect()
\* returns, with the connection made or not (its code is logged and
\* overwritten at the top of the outer loop), or raises.
Reconnect ==
  /\ pc = "reconnect"
  /\ \/ /\ net' \in {"tcp", "down"}
        /\ reconnected' = (net' = "tcp")
        /\ ret' = MQTT_ERR_SUCCESS
        /\ pc' = "loop"
        /\ UNCHANGED << timeout, net_thread, subscribed, exit_status,
                        exit_cause >>
     \/ MainExit(ClassExitus(MQTT_CONNECTION_ERROR, "failed"), "reconnect")
  /\ UNCHANGED << args, published, legacy, exit_code, connected, connect_rc, mqttc, pool, msgs,
                  writers, table, last_committed, sigterm >>

\* The SIGTERM of a write2sql thread's os.kill(os.getpid(), SIGTERM) is
\* handled: SignalHandler._exitus runs in the main thread, wherever that is,
\* and leaves through exitus.
SelfSignalHandler ==
  /\ sigterm
  /\ pc /= "exited"
  /\ MainExit(HandlerExitus(SIGTERM), "sigterm_self")
  /\ sigterm' = FALSE
  /\ UNCHANGED << args, published, legacy, exit_code, connected, connect_rc, mqttc, pool, msgs,
                  writers, table, last_committed >>

\* SIGINT or SIGTERM from outside, handled the same way.
ExternalSignal ==
  /\ pc /= "exited"
  /\ \E signal_ \in {SIGINT, SIGTERM} :
        MainExit(HandlerExitus(signal_), "signal_external")
  /\ UNCHANGED << args, published, legacy, exit_code, connected, connect_rc, mqttc, pool, msgs,
                  writers, table, last_committed, sigterm >>

(***************************************************************************)
(* The storage backend.                                                    *)
(***************************************************************************)
\* The row write2sql's statements store for a message (ts left out).
Row(message) ==
  [ topic |-> message.topic, value |-> message.payload, qos |-> message.qos,
    retain |-> message.retain ]

\* The table's unique key: the column topic (the table is created by the
\* install scripts, outside this source).
KeyOf(r) == r.topic

\* The rows of tbl with the given topic, as a bag.
RowsOf(tbl, topic) ==
  LET hit == {r \in BagToSet(tbl) : r.topic = topic}
  IN  [r \in hit |-> tbl[r]]

\* A row of tbl conflicts with the key of a new row for topic.
HasTopic(tbl, topic) == \E r \in BagToSet(tbl) : KeyOf(r) = topic

\* INSERT without OR IGNORE: a variant the one-row-per-topic property must
\* tell apart.
InsertAlways(tbl, message) == tbl (+) SetToBag({Row(message)})

\* sqlite: INSERT OR IGNORE INTO ... VALUES(...)
InsertOrIgnore(tbl, message) ==
  IF HasTopic(tbl, message.topic)
    THEN tbl
    ELSE tbl (+) SetToBag({Row(message)})

\* An UPDATE that matches no row: a variant the last-committed-write
\* property must tell apart.
UpdateNothing(tbl, message) == tbl

\* sqlite: UPDATE ... SET ts, value, qos, retain WHERE topic = ...
Update(tbl, message) ==
  LET hit  == RowsOf(tbl, message.topic)
      rest == [r \in BagToSet(tbl) \ DOMAIN hit |-> tbl[r]]
  IN  IF DOMAIN hit = {}
        THEN tbl
        ELSE rest (+) [r \in {Row(message)} |-> BagCardinality(hit)]

\* INSERT without the ON DUPLICATE KEY UPDATE clause taking effect: a
\* variant the idempotence property must tell apart.
InsertOnDuplicateKeyInsert(tbl, message) == tbl (+) SetToBag({Row(message)})

\* mysql: INSERT INTO ... SET ... ON DUPLICATE KEY UPDATE ...
InsertOnDuplicateKeyUpdate(tbl, message) ==
  IF HasTopic(tbl, message.topic)
    THEN Update(tbl, message)
    ELSE tbl (+) SetToBag({Row(message)})

\* The statements of one transaction, by backend.
Execute(type, tbl, message) ==
  IF type = "mysql"
    THEN InsertOnDuplicateKeyUpdate(tbl, message)
    ELSE Update(InsertOrIgnore(tbl, message), message)

\* Errors MySQLdb.connect / sqlite3.connect raise, by err.args[0].
ConnectErrors(type) ==
  IF type = "mysql" THEN {ER_CANT_CONNECT, ER_CON_COUNT_ERROR} ELSE {0}

\* Errors a transaction attempt raises: where (execute or commit), the
\* exception class, the MySQL code, and whether the text holds
\* "database is locked".
TxnErrors(type) ==
  IF type = "mysql"
    THEN [ at : {"execute", "commit"}, cls : {"MySQLdb.Error"},
           code : {ER_LOCK_WAIT_TIMEOUT, ER_PARSE_ERROR}, locked : {FALSE} ]
    ELSE [ at : {"execute", "commit"},
           cls : {"sqlite3.OperationalError", "sqlite3.IntegrityError"},
           code : {0}, locked : BOOLEAN ]

\* The retry_condition write2sql hands to sql_execute_exception.
retry_condition(type, err) ==
  IF type = "mysql" THEN err.code \in RetryCodes ELSE err.locked

\* The class of a transaction error: transient if it is one the retry
\* condition selects.
ErrorClass(type, err) ==
  IF retry_condition(type, err) THEN "transient" ELSE "non_transient"

\* An inner handler that clears a flag another thread has set: a variant the
\* monotonicity property must tell apart.
OperationalErrorExitCodeToggled(exit_code_) ==
  IF exit_code_ = OK THEN SQL_CONNECTION_ERROR ELSE OK

\* self.exit_code = ExitCode.SQL_CONNECTION_ERROR, exit_code_ being the
\* flag's value before.
OperationalErrorExitCode(exit_code_) == SQL_CONNECTION_ERROR

\* sqlite only: cursor.execute() sits in an inner try whose handler for
\* sqlite3.OperationalError sets self.exit_code and calls sys.exit().
InnerOperationalError(type, err) ==
  /\ type = "sqlite"
  /\ err.at = "execute"
  /\ err.cls = "sqlite3.OperationalError"

(***************************************************************************)
(* write2sql(message): the thread of message number w.                     *)
(***************************************************************************)
\* sys.exit() or an uncaught exception in a thread ends that thread alone;
\* how records the exit path.  The thread's locals are gone with it.
Ended(wr, how) ==
  [wr EXCEPT !.pc = "ended", !.how = how, !.connection_retry = 0,
             !.connection_delay = 0, !.error_code = NoError,
             !.transaction_retry = 0]

\* The top of the transaction loop without its test of the exit flag: a
\* variant the cancellation property must tell apart.
TxnLoopTopUnchecked(wr, exit_code_) ==
  IF wr.transaction_retry > 0
    THEN IF wr.db_connection = "None" THEN Ended(wr, "cursor_on_None")
         ELSE [wr EXCEPT !.pc = "txn_try"]
    ELSE IF wr.db_connection = "None" THEN Ended(wr, "close_on_None")
         ELSE Ended([wr EXCEPT !.db_connection = "closed", !.released = @ + 1],
                    "no_transaction")

\* The top of "while transaction_retry > 0", exit_code_ being the exit flag
\* as read there: the exit flag and db_connection.cursor(), or, with the loop
\* not entered, db_connection.close() and release().  Either call on
\* db_connection = None raises AttributeError, which ends the thread.
TxnLoopTop(wr, exit_code_) ==
  IF wr.transaction_retry > 0
    THEN IF exit_code_ /= OK THEN Ended(wr, "exit_flag")
         ELSE IF wr.db_connection = "None" THEN Ended(wr, "cursor_on_None")
         ELSE [wr EXCEPT !.pc = "txn_try"]
    ELSE IF wr.db_connection = "None" THEN Ended(wr, "close_on_None")
         ELSE Ended([wr EXCEPT !.db_connection = "closed", !.released = @ + 1],
                    "no_transaction")

\* The top of "while connection_retry > 0": the exit flag and on to a
\* connect attempt, or past the loop to the transaction phase, which reads
\* connection_delay and error_code no more.
ConnectLoopTop(wr, exit_code_) ==
  IF wr.connection_retry > 0
    THEN IF exit_code_ /= OK THEN Ended(wr, "exit_flag")
         ELSE [wr EXCEPT !.pc = "connect_try"]
    ELSE TxnLoopTop(
           [wr EXCEPT !.transaction_retry = args.sql_transaction_retry,
                      !.connection_delay = 0,
                      !.error_code = NoError],
           exit_code_)

\* The permits a step of thread w hands back to pool_sqlconnections.
Released(w) == writers'[w].released - writers[w].released

\* The entry of write2sql: the exit flag, the locals of the connect phase,
\* and the top of the connect loop.
WriterStart(w) ==
  /\ writers[w].pc = "start"
  /\ writers' = [writers EXCEPT ![w] =
        IF exit_code /= OK
          THEN Ended(@, "exit_flag")
          ELSE ConnectLoopTop(
                 [@ EXCEPT !.connection_retry = args.sql_connection_retry,
                           !.connection_delay = sql_connection_retry_start_delay],
                 exit_code)]
  /\ pool' = pool + Released(w)
  /\ UNCHANGED << args, published, legacy, exit_code, connected, connect_rc, mqttc, pc, timeout,
                  ret, net, net_thread, reconnected, subscribed, msgs, table, last_committed,
                  sigterm, exit_status, exit_cause >>

\* A retry delay that doubles: a variant the linear-growth property must
\* tell apart.
NextConnectionDelayDoubled(connection_delay, connection_delay_base) ==
  connection_delay * 2

\* connection_delay += connection_delay_base
NextConnectionDelay(connection_delay, connection_delay_base) ==
  connection_delay + connection_delay_base

\* The connect loop's except block from the return of
\* time.sleep(connection_delay) on: the delay of the next sleep, and the
\* loop's top again.
WriterConnectLoop(w) ==
  /\ writers[w].pc = "connect"
  /\ writers' = [writers EXCEPT ![w] =
        ConnectLoopTop(
          [@ EXCEPT !.connection_delay =
                       NextConnectionDelay(@, sql_connection_retry_start_delay)],
          exit_code)]
  /\ pool' = pool + Released(w)
  /\ UNCHANGED << args, published, legacy, exit_code, connected, connect_rc, mqttc, pc, timeout,
                  ret, net, net_thread, reconnected, subscribed, msgs, table, last_committed,
                  sigterm, exit_status, exit_cause >>

\* An except block that leaves connection_retry as it is: a variant the
\* termination property must tell apart.
ConnectionRetryKept(connection_retry, error_code) == connection_retry

\* An except block without the test for code 2005: a variant the
\* non-retryable-error property must tell apart.
ConnectionRetryDecrement(connection_retry, error_code) == connection_retry - 1

\* connection_retry after a failed attempt with error code error_code.
ConnectionRetryAfterError(connection_retry, error_code) ==
  IF error_code = ER_CANT_CONNECT THEN 0 ELSE connection_retry - 1

\* One connect attempt: it succeeds and the loops' tops follow, or it raises
\* and the except block calls time.sleep(connection_delay) for a retry (the
\* thread at "connect" is in that sleep), or gives up with os.kill and
\* exitus, whose SystemExit ends this thread.
WriterConnectTry(w) ==
  /\ writers[w].pc = "connect_try"
  /\ \/ /\ writers' = [writers EXCEPT ![w] =
              ConnectLoopTop([@ EXCEPT !.db_connection = "open",
                                       !.connection_retry = 0],
                             exit_code)]
        /\ UNCHANGED sigterm
     \/ \E error_code \in ConnectErrors(args.sql_type) :
          LET left == ConnectionRetryAfterError(writers[w].connection_retry,
                                                error_code)
          IN  IF left > 0
                THEN /\ writers' = [writers EXCEPT ![w] =
                           [@ EXCEPT !.pc = "connect",
                                     !.connection_retry = left,
                                     !.error_code = error_code]]
                     /\ UNCHANGED sigterm
                ELSE /\ writers' = [writers EXCEPT ![w] =
                           [Ended(@, "connect_give_up")
                              EXCEPT !.error_code = error_code]]
                     /\ sigterm' = TRUE
  /\ pool' = pool + Released(w)
  /\ UNCHANGED << args, published, legacy, exit_code, connected, connect_rc, mqttc, pc, timeout,
                  ret, net, net_thread, reconnected, subscribed, msgs, table, last_committed,
                  exit_status, exit_cause >>

\* sql_execute_exception(retry_condition, error_str); rollback_ok tells
\* whether db_connection.rollback() returns.
sql_execute_exception(wr, retry, rollback_ok) ==
  IF retry
    THEN [wr EXCEPT !.transaction_retry = @ - 1, !.txn_slept = TRUE,
                    !.how = "transient_error"]
    ELSE [wr EXCEPT !.transaction_retry = IF rollback_ok THEN 0 ELSE @,
                    !.rollback = TRUE,
                    !.how = "give_up"]

\* A finally block without its return, after which the statements behind the
\* loop close and release once more: a variant the single-release property
\* must tell apart.
FinallyFallsThrough(wr) ==
  Ended([wr EXCEPT !.db_connection = "closed", !.released = @ + 2], wr.how)

\* The finally block of the transaction loop: cursor.close(),
\* db_connection.close(), release() and return.
Finally(wr) ==
  Ended([wr EXCEPT !.db_connection = "closed", !.released = @ + 1], wr.how)

\* One pass of the transaction loop's try statement.
WriterTxnTry(w) ==
  /\ writers[w].pc = "txn_try"
  /\ LET wr == [writers[w] EXCEPT !.txn_attempts = @ + 1]
     IN  \/ \* execute and commit return
            /\ table' = Execute(args.sql_type, table, msgs[w])
            /\ last_committed' =
                  [last_committed EXCEPT ![msgs[w].topic] = {msgs[w]}]
            /\ writers' = [writers EXCEPT ![w] =
                  Finally([wr EXCEPT !.transaction_retry = 0,
                                     !.how = "commit"])]
            /\ UNCHANGED exit_code
         \/ \E err \in TxnErrors(args.sql_type), rollback_ok \in BOOLEAN :
              LET we == [wr EXCEPT !.txn_error =
                                      ErrorClass(args.sql_type, err)]
              IN  /\ table' = table
                  /\ last_committed' = last_committed
                  /\ IF InnerOperationalError(args.sql_type, err)
                       THEN /\ exit_code' = OperationalErrorExitCode(exit_code)
                            /\ writers' = [writers EXCEPT ![w] =
                                  Finally([we EXCEPT
                                             !.how = "operational_error"])]
                       ELSE /\ exit_code' = exit_code
                            /\ writers' = [writers EXCEPT ![w] =
                                  Finally(sql_execute_exception(
                                     we, retry_condition(args.sql_type, err),
                                     rollback_ok))]
  /\ pool' = pool + Released(w)
  /\ UNCHANGED << args, published, legacy, connected, connect_rc, mqttc, pc, timeout, ret, net,
                  net_thread, reconnected, subscribed, msgs, sigterm,
                  exit_status, exit_cause >>

(***************************************************************************)
(* The specification.                                                      *)
(***************************************************************************)
Next ==
  \/ MqttConnect
  \/ NetConnack
  \/ WaitForConnect
  \/ LoopNone
  \/ LoopQuiet
  \/ LoopRaises
  \/ LoopConnack
  \/ LoopConnLost
  \/ LoopError
  \/ OnMessage
  \/ Acquire
  \/ Check
  \/ Reconnect
  \/ SelfSignalHandler
  \/ ExternalSignal
  \/ \E w \in Ids : WriterStart(w)
  \/ \E w \in Ids : WriterConnectLoop(w)
  \/ \E w \in Ids : WriterConnectTry(w)
  \/ \E w \in Ids : WriterTxnTry(w)

Spec == Init /\ [][Next]_vars

\* A step of the write2sql thread of message number w.
write2sql(w) ==
  \/ WriterStart(w)
  \/ WriterConnectLoop(w)
  \/ WriterConnectTry(w)
  \/ WriterTxnTry(w)

\* A broker on which one value is published, on one topic, again and again.
OneTopic == {message \in Messages : message.topic = "b/1"}

\* The program started with any retry budget.
InitBudgets == \E args_ \in ArgsBudgets : InitWith(args_, OneTopic)

\* Scheduling: a thread that can take a step takes it.  acquire() returns
\* once a permit is free, each write2sql thread runs on (every storage call
\* returns), and a pending signal is handled by the main thread.
Fairness ==
  /\ WF_vars(Acquire)
  /\ WF_vars(SelfSignalHandler)
  /\ \A w \in Ids : WF_vars(write2sql(w))

\* The program on a transport that stays up once connected and without
\* signals from outside: the steps that bear on the write2sql threads and on
\* the pool.
NextBudgets ==
  \/ MqttConnect
  \/ NetConnack
  \/ WaitForConnect
  \/ LoopQuiet
  \/ OnMessage
  \/ Acquire
  \/ Check
  \/ SelfSignalHandler
  \/ \E w \in Ids : write2sql(w)

BudgetSpec == InitBudgets /\ [][NextBudgets]_vars /\ Fairness

(***************************************************************************)
(* The legacy script src/mqtt2mysql.py: one thread, which connects, runs   *)
(* mqttc.loop() until it returns a code other than 0, and handles each     *)
(* message in on_message before loop() returns.                            *)
(***************************************************************************)
\* The variables of the mqtt2sql.py process, which the legacy script leaves
\* alone.
vars_mqtt2sql ==
  << args, published, exit_code, connected, connect_rc, mqttc, pool, pc,
     timeout, ret, net, net_thread, reconnected, subscribed, msgs, writers,
     table, last_committed, sigterm, exit_status, exit_cause >>

\* The legacy process ends: sys.exit(status), or an exception nothing
\* catches, after which the interpreter exits with status 1.
LegacyExit(l, status, cause) ==
  [l EXCEPT !.pc = "exited", !.exit_status = status, !.exit_cause = cause]

\* The row the legacy statement stores for a message.
LegacyRow(message) == [topic |-> message.topic, value |-> message.payload]

\* INSERT INTO ... SET topic, value ON DUPLICATE KEY UPDATE value
LegacyUpsert(tbl, message) ==
  {r \in tbl : KeyOf(r) /= message.topic} \cup {LegacyRow(message)}

\* The calls of on_message that may raise MySQLdb.Error.
LegacyCalls == {"connect", "execute", "commit"}

\* on_message(client, userdata, message) of the legacy script, failing
\* being the call that raises MySQLdb.Error ("none": no call does) and
\* rollback_ok telling whether db.rollback() returns.  The outer try catches
\* IndexError only: an error of MySQLdb.connect() leaves on_message as an
\* exception, with db unbound.  The inner handler catches an error of
\* execute or commit, logs it and calls db.rollback(), whose own error
\* leaves on_message too; db.close() follows the try statements.
legacy_on_message(l, message, failing, rollback_ok) ==
  LET got == [l EXCEPT !.msgs = Append(@, message), !.error = failing,
                       !.rollback = FALSE]
  IN  IF failing = "connect"
        THEN LegacyExit([got EXCEPT !.db = "unbound"], 1, "uncaught")
      ELSE IF failing = "none"
        THEN [got EXCEPT !.table = LegacyUpsert(@, message), !.db = "closed"]
      ELSE IF rollback_ok
        THEN [got EXCEPT !.rollback = TRUE, !.db = "closed"]
      ELSE LegacyExit([got EXCEPT !.rollback = TRUE, !.db = "open"],
                      1, "uncaught")

\* mqttc.connect(): it returns, or it raises and the handler calls exitus,
\* a name the script does not define.
LegacyMqttConnect ==
  /\ legacy.pc = "connect"
  /\ \/ legacy' = [legacy EXCEPT !.pc = "loop"]
     \/ legacy' = LegacyExit(legacy, 1, "uncaught")
  /\ UNCHANGED vars_mqtt2sql

\* mqttc.loop() reads the CONNACK and calls on_connect, which subscribes;
\* loop() returns 0.
LegacyLoopConnack ==
  /\ legacy.pc = "loop"
  /\ ~legacy.subscribed
  /\ legacy' = [legacy EXCEPT !.subscribed = TRUE, !.rc = 0]
  /\ UNCHANGED vars_mqtt2sql

\* mqttc.loop() reads a PUBLISH and calls on_message; an exception of
\* on_message passes through loop() and the main loop, which has no try.
LegacyOnMessage ==
  /\ legacy.pc = "loop"
  /\ legacy.subscribed
  /\ Len(legacy.msgs) < MaxMsgs
  /\ \E message \in published, failing \in LegacyCalls \cup {"none"},
        rollback_ok \in BOOLEAN :
        legacy' = legacy_on_message([legacy EXCEPT !.rc = 0], message,
                                    failing, rollback_ok)
  /\ UNCHANGED vars_mqtt2sql

\* mqttc.loop() returns a code other than 0: the loop ends and
\* exit(rc, "MQTT disconnected") calls sys.exit(rc).
LegacyLoopError ==
  /\ legacy.pc = "loop"
  /\ \E rc \in {MQTT_ERR_NO_CONN, MQTT_ERR_CONN_LOST} :
        legacy' = LegacyExit([legacy EXCEPT !.rc = rc], SysExitStatus(PyInt(rc)),
                             "loop_rc")
  /\ UNCHANGED vars_mqtt2sql

\* SIGTERM: signal_term_handler calls sys.exit(0).
LegacySigterm ==
  /\ legacy.pc /= "exited"
  /\ legacy' = LegacyExit(legacy, 0, "sigterm")
  /\ UNCHANGED vars_mqtt2sql

\* The legacy script is started; the mqtt2sql.py process is not.
LegacyInit == InitWith(CHOOSE args_ \in Args : TRUE, Messages)

LegacyNext ==
  \/ LegacyMqttConnect
  \/ LegacyLoopConnack
  \/ LegacyOnMessage
  \/ LegacyLoopError
  \/ LegacySigterm

LegacySpec == LegacyInit /\ [][LegacyNext]_vars

(***************************************************************************)
(* Properties.                                                             *)
(***************************************************************************)
\* The write2sql threads started by on_message that have not ended.
InFlight == {w \in Ids : writers[w].pc \notin {"idle", "ended"}}

\* The write2sql threads that have ended.
EndedWriters == {w \in Ids : writers[w].pc = "ended"}

\* The main thread is inside loop_forever.
InLoopForever == pc \in {"loop", "acquire", "check", "reconnect"}

\* C1: in every reachable state the number of write2sql threads that
\* on_message has started and that have not ended is at most the pool
\* capacity args.sql_max_connection.
C1_InFlightWithinCapacity ==
  Cardinality(InFlight) <= args.sql_max_connection

\* C1 witness: the pool is exhausted, as many threads are in flight as the
\* capacity allows, and on_message waits in acquire() for a further message.
C1_PoolExhausted ==
  /\ pc = "acquire"
  /\ pool = 0
  /\ Cardinality(InFlight) = args.sql_max_connection

\* C2: every write2sql thread that has ended has released its permit
\* exactly once, whatever its exit path.
C2_ReleasedExactlyOnce ==
  \A w \in EndedWriters : writers[w].released = 1

\* C3: a thread whose transaction attempt failed on a transient error tries
\* again while its budget lasts: it ends on a transient error only after as
\* many attempts as args.sql_transaction_retry allows.
C3_TransientErrorRetried ==
  \A w \in EndedWriters :
     writers[w].how = "transient_error"
        => writers[w].txn_attempts >= args.sql_transaction_retry

\* The exit paths of a failed transaction phase.
TransactionFailures == {"transient_error", "give_up", "operational_error"}

\* C4: a failure in the transaction phase of one message, on either
\* backend, leaves the shared exit_code at OK.
C4_TransactionFailureContained ==
  (\E w \in Ids : writers[w].how \in TransactionFailures) => exit_code = OK

\* C5: when a thread has given up on the storage connection and the main
\* thread has left on the SIGTERM it sent, the exit status is
\* ExitCode.SQL_CONNECTION_ERROR.
C5_GiveUpExitStatus ==
  (/\ \E w \in Ids : writers[w].how = "connect_give_up"
   /\ pc = "exited"
   /\ exit_cause = "sigterm_self")
     => exit_status = SQL_CONNECTION_ERROR

\* C6: once a thread has given up on the storage connection the shared
\* exit_code is not OK.
C6_GiveUpSetsExitFlag ==
  (\E w \in Ids : writers[w].how = "connect_give_up") => exit_code /= OK

\* C7: loop_forever is entered only with the client of a successful initial
\* connect; after a failed one (mqtt_connect returns None) the main thread
\* has left during construction.
C7_InitialConnectFailureIsFatal ==
  InLoopForever => mqttc = "client"

\* The exits of the main thread on a transport failure.
TransportFailures == {"initial_connect", "reconnect", "loop_rc"}

\* C8: whenever the main thread has left because of a transport failure its
\* exit status is ExitCode.MQTT_CONNECTION_ERROR.
C8_TransportFailureExitStatus ==
  exit_cause \in TransportFailures => exit_status = MQTT_CONNECTION_ERROR

\* C9: in every connected state of the transport, the first or one reached
\* after a lost connection and a reconnect, the filters the broker holds are
\* exactly the configured ones, so inbound messages are dispatched.
C9_ConnectedIsSubscribed ==
  net = "up" => subscribed = mqtt_topic

\* C9 witness: on a connection made by reconnect() on_connect has subscribed
\* again and on_message runs for a message delivered on it.
C9_DispatchAfterReconnect ==
  /\ reconnected
  /\ net = "up"
  /\ subscribed = mqtt_topic
  /\ pc = "acquire"

\* C10: a message whose topic is on the exclusion list takes no permit, gets
\* no write2sql thread, and no row of its topic is written.
C10_ExcludedNeverWritten ==
  \A i \in 1 .. Len(msgs) :
     msgs[i].topic \in mqtt_exclude_topic
        => /\ writers[i] = NoWriter
           /\ ~HasTopic(table, msgs[i].topic)
           /\ i = Len(msgs) => pc /= "acquire"

\* C10 witness: on_message has returned for an excluded message, and the
\* message after it has been written.
C10_ExcludedThenWritten ==
  /\ Len(msgs) = 2
  /\ msgs[1].topic \in mqtt_exclude_topic
  /\ writers[1] = NoWriter
  /\ writers[2].how = "commit"

\* C11: in every reachable state the destination table holds at most one
\* row per topic, on either backend and under any interleaving of the
\* write2sql threads.
C11_OneRowPerTopic ==
  \A message \in Messages :
     BagCardinality(RowsOf(table, message.topic)) <= 1

\* C11 witness: two threads have committed different messages of one topic
\* with the two-statement sqlite variant, and the table holds one row.
C11_TwoCommitsOneRow ==
  /\ args.sql_type = "sqlite"
  /\ Len(msgs) >= 2
  /\ msgs[1].topic = msgs[2].topic
  /\ msgs[1] /= msgs[2]
  /\ writers[1].how = "commit"
  /\ writers[2].how = "commit"
  /\ BagCardinality(table) = 1

\* C12: the upsert is idempotent: from any reachable table, writing a message
\* a second time changes nothing; after the first write the topic has exactly
\* one row, with the message's payload, qos and retain, and the second write
\* inserts no row.
C12_UpsertIdempotent ==
  \A message \in Messages :
     LET once  == Execute(args.sql_type, table, message)
         twice == Execute(args.sql_type, once, message)
     IN  /\ twice = once
         /\ RowsOf(once, message.topic) = SetToBag({Row(message)})
         /\ BagCardinality(twice) = BagCardinality(once)

\* C12 witness: the same message was received twice, both threads have
\* committed, and the table holds its one row.
C12_SameMessageTwice ==
  /\ Len(msgs) >= 2
  /\ msgs[1] = msgs[2]
  /\ writers[1].how = "commit"
  /\ writers[2].how = "commit"
  /\ table = SetToBag({Row(msgs[1])})

\* C13: for every topic the stored row carries the payload, qos and retain
\* of the write for that topic that committed last, and there is no row
\* before the first commit; a thread that gave up or was dropped leaves the
\* row as it was.
C13_RowIsLastCommittedWrite ==
  \A topic \in Topics :
     RowsOf(table, topic) =
        SetToBag({Row(message) : message \in last_committed[topic]})

\* C13 witness: of two different messages of one topic the first was
\* committed and the second, received later, failed in its transaction
\* phase; the row is the first message's.
C13_LaterWriteDropped ==
  /\ Len(msgs) >= 2
  /\ msgs[1].topic = msgs[2].topic
  /\ msgs[1] /= msgs[2]
  /\ writers[1].how = "commit"
  /\ writers[2].pc = "ended"
  /\ writers[2].how \in TransactionFailures
  /\ table = SetToBag({Row(msgs[1])})

\* C14: once exit_code is not OK, an on_message call that begins takes no
\* permit and starts no thread, a write2sql thread that starts or comes to a
\* test of the flag ends there with no connection opened, no thread comes to
\* a new connect or transaction attempt, and only a thread already in its
\* transaction attempt changes the table.
C14_StopOnExitFlag ==
  [][ exit_code /= OK =>
        /\ Len(msgs') > Len(msgs) =>
              /\ pc' = "exited"
              /\ pool' = pool
              /\ writers' = writers
        /\ \A w \in Ids :
              /\ (writers[w].pc \in {"start", "connect"}
                    /\ writers'[w] /= writers[w]) =>
                    /\ writers'[w].pc = "ended"
                    /\ writers'[w].how = "exit_flag"
                    /\ writers'[w].db_connection = "None"
              /\ writers'[w].pc = "connect_try" =>
                    writers[w].pc = "connect_try"
              /\ writers'[w].pc = "txn_try" => writers[w].pc = "txn_try"
        /\ table' /= table => \E w \in Ids : writers[w].pc = "txn_try"
    ]_vars

\* C14 witness: exit_code is SQL_CONNECTION_ERROR, set by one thread, and
\* another thread has stopped at a test of the flag with no connection
\* opened and nothing written.
C14_StoppedAtCheck ==
  /\ exit_code /= OK
  /\ \E w, v \in Ids :
        /\ writers[w].how = "operational_error"
        /\ writers[v].pc = "ended"
        /\ writers[v].how = "exit_flag"
        /\ writers[v].db_connection = "None"
        /\ ~HasTopic(table, msgs[v].topic)

\* C15: write2sql threads are started in the order their messages were
\* received: when on_message has returned for a message that is not
\* excluded, and so before any later message is received, its thread has
\* been started.
C15_StartedInReceiveOrder ==
  \A i \in 1 .. Len(msgs) :
     (/\ msgs[i].topic \notin mqtt_exclude_topic
      /\ i < Len(msgs) \/ pc \in {"loop", "check", "reconnect"})
        => writers[i].pc /= "idle"

\* C15 witness: two messages were dispatched, and the thread of the second
\* has ended while the thread of the first, started before it, still runs.
C15_SecondEndedFirst ==
  /\ Len(msgs) >= 2
  /\ writers[1].pc \notin {"idle", "ended"}
  /\ writers[2].pc = "ended"

\* Messages i and j, received in this order, are the only ones of their
\* topic, both threads have committed and ended, and the row is the one of
\* message i, not of message j.
OutOfOrder(i, j) ==
  /\ i < j
  /\ msgs[i].topic = msgs[j].topic
  /\ Row(msgs[i]) /= Row(msgs[j])
  /\ \A k \in 1 .. Len(msgs) : k \in {i, j} \/ msgs[k].topic /= msgs[i].topic
  /\ writers[i].pc = "ended" /\ writers[i].how = "commit"
  /\ writers[j].pc = "ended" /\ writers[j].how = "commit"
  /\ RowsOf(table, msgs[i].topic) = SetToBag({Row(msgs[i])})

\* C16: writes of one topic may commit out of order, and it takes a pool
\* capacity of at least 2: whenever the row is the one of the earlier of two
\* committed messages, args.sql_max_connection is 2 or more.
C16_OutOfOrderNeedsCapacity ==
  (\E i, j \in 1 .. Len(msgs) : OutOfOrder(i, j))
     => args.sql_max_connection >= 2

\* C16 witness: with a capacity of 2 or more, both threads have committed and
\* ended and the row holds the payload of the message received first.
C16_CommittedOutOfOrder ==
  /\ args.sql_max_connection >= 2
  /\ \E i, j \in 1 .. Len(msgs) : OutOfOrder(i, j)

\* The exits of the main thread through the signal handler.
SignalCauses == {"sigterm_self", "signal_external"}

\* C17: loop_forever sorts the outcome of an iteration into three classes.
\* An exception raised by loop() leaves ret at MQTT_ERR_SUCCESS and the loop
\* goes on, as it does after a successful iteration; MQTT_ERR_CONN_LOST
\* leads to a reconnect attempt, after which the loop runs again or, if
\* reconnect() raised, the process ends; any other return code ends the
\* process.
C17_LoopOutcomeClasses ==
  [][ /\ (pc = "loop" /\ mqttc = "None" /\ pc' \notin {"loop", "exited"}) =>
            pc' = "check" /\ ret' = MQTT_ERR_SUCCESS
      /\ (/\ pc = "check"
          /\ exit_code = OK
          /\ pc' /= "check"
          /\ exit_cause' \notin SignalCauses) =>
            IF ret = MQTT_ERR_SUCCESS
              THEN pc' = "loop" /\ net' = net
            ELSE IF ret = MQTT_ERR_CONN_LOST
              THEN pc' = "reconnect"
            ELSE pc' = "exited" /\ exit_cause' = "loop_rc"
      /\ (/\ pc = "reconnect"
          /\ pc' /= "reconnect"
          /\ exit_cause' \notin SignalCauses) =>
            \/ pc' = "loop" /\ net' \in {"tcp", "down"}
            \/ pc' = "exited" /\ exit_cause' = "reconnect"
    ]_vars

\* C17 witness: after a lost connection and a reconnect attempt, loop()
\* returned a code other than MQTT_ERR_SUCCESS and MQTT_ERR_CONN_LOST and the
\* main thread has left for it.
C17_FatalReturnCode ==
  /\ pc = "exited"
  /\ exit_cause = "loop_rc"
  /\ connected

\* C18: a failed reconnect attempt is fatal: after MQTT_ERR_CONN_LOST the
\* network loop is run again only on a client whose reconnect() made the
\* connection.
C18_FailedReconnectIsFatal ==
  [][ (pc = "reconnect" /\ pc' = "loop") => net' = "tcp" ]_vars

\* C19: once exit_code is not OK, the main thread leaves after the iteration
\* of the network loop or after the reconnect attempt that was in progress:
\* it makes no further call of mqttc.loop().
C19_ExitFlagCheckedAfterEachStep ==
  [][ (/\ exit_code /= OK
       /\ pc \in {"check", "reconnect"}
       /\ pc' /= pc) => pc' = "exited"
    ]_vars

\* C20: a write2sql thread tests the exit flag before each retry sleep: with
\* exit_code not OK when its connect attempt fails it does not go to sleep
\* for a retry, and when its transaction attempt fails it does not take the
\* retry branch of sql_execute_exception, which sleeps.
C20_NoRetrySleepOnExitFlag ==
  [][ exit_code /= OK =>
        \A w \in Ids :
           /\ writers[w].pc = "connect_try" => writers'[w].pc /= "connect"
           /\ (writers[w].pc = "txn_try" /\ writers'[w].pc = "ended") =>
                 writers'[w].how /= "transient_error"
    ]_vars

\* The connect attempts of thread w that have failed so far: each one took
\* one from connection_retry.
FailedConnects(w) == args.sql_connection_retry - writers[w].connection_retry

C22_ConnectionDelayDoubles ==
  \A w \in Ids :
     writers[w].pc = "connect"
        => writers[w].connection_delay =
              sql_connection_retry_start_delay * 2 ^ (FailedConnects(w) - 1)

\* C23: a thread whose connect attempt failed with the non-retryable error
\* code makes no further attempt and sleeps no retry delay, whatever budget
\* remained: it has taken the give-up path, with the SIGTERM sent and no
\* connection opened.
C23_NonRetryableGivesUp ==
  \A w \in Ids :
     writers[w].error_code = ER_CANT_CONNECT
        => /\ writers[w].pc = "ended"
           /\ writers[w].how = "connect_give_up"
           /\ writers[w].connection_retry = 0
           /\ writers[w].db_connection = "None"
           /\ writers[w].txn_attempts = 0

\* C23 witness: with the largest budget configured a thread has given up on
\* the non-retryable error code, and the SIGTERM it sent is pending.
C23_GaveUpWithBudgetLeft ==
  /\ args.sql_connection_retry = MaxRetryBudget
  /\ sigterm
  /\ \E w \in Ids :
        /\ writers[w].how = "connect_give_up"
        /\ writers[w].error_code = ER_CANT_CONNECT

\* C24: a thread whose transaction attempt raised a non-transient error
\* makes no retry: it has called rollback, given up on the message, and
\* ended after exactly one transaction attempt, with its connection closed
\* and its permit handed back, whatever budget remained.
C24_NonTransientRollsBackOnce ==
  \A w \in Ids :
     writers[w].txn_error = "non_transient"
        => /\ writers[w].pc = "ended"
           /\ writers[w].rollback
           /\ ~writers[w].txn_slept
           /\ writers[w].txn_attempts = 1
           /\ writers[w].db_connection = "closed"
           /\ writers[w].released = 1

\* C25: a thread whose transaction attempt raised a transient error and
\* that has ended had used up its budget of attempts, rolled the transaction
\* back and did not sleep after the last attempt.
C25_TransientSleepsOnlyBeforeRetry ==
  \A w \in EndedWriters :
     writers[w].txn_error = "transient"
        => /\ writers[w].txn_attempts = args.sql_transaction_retry
           /\ writers[w].rollback
           /\ ~writers[w].txn_slept

\* C26: every storage connection a thread has opened is closed before the
\* thread ends, on every exit path after the connect phase: no ended thread
\* is left with an open connection.
C26_OpenedConnectionClosed ==
  \A w \in EndedWriters : writers[w].db_connection /= "open"

\* C27: backpressure never becomes a permanent stall: under fair scheduling
\* and while exit_code stays OK, an on_message call blocked in acquire()
\* eventually gets a permit (or the process is ended by a signal), for every
\* pool capacity and every retry budget from 0 on.
C27_BlockedAcquireProceeds ==
  (pc = "acquire") ~> (pc /= "acquire" \/ exit_code /= OK)

\* C28: every write2sql invocation terminates.  A connect attempt is made
\* only with a connection_retry between 1 and args.sql_connection_retry and
\* leaves it smaller, so there are at most args.sql_connection_retry of
\* them; there are at most args.sql_transaction_retry transaction attempts;
\* neither counter grows once its loop has begun; and under fair scheduling
\* every started thread ends.
C28_Write2SqlTerminates ==
  /\ [](\A w \in Ids :
          /\ writers[w].connection_retry <= args.sql_connection_retry
          /\ writers[w].transaction_retry <= args.sql_transaction_retry
          /\ writers[w].txn_attempts <= args.sql_transaction_retry
          /\ writers[w].pc = "connect_try" => writers[w].connection_retry >= 1
          /\ writers[w].pc = "txn_try" => writers[w].transaction_retry >= 1)
  /\ [][ \A w \in Ids :
            /\ (writers[w].pc = "connect_try" /\ writers'[w] /= writers[w])
                  => writers'[w].connection_retry < writers[w].connection_retry
            /\ writers[w].pc = "connect"
                  => writers'[w].connection_retry <= writers[w].connection_retry
            /\ (writers[w].pc = "txn_try" /\ writers'[w] /= writers[w])
                  => /\ writers'[w].transaction_retry
                           < writers[w].transaction_retry
                     /\ writers'[w].pc = "ended"
       ]_vars
  /\ \A w \in Ids : (writers[w].pc = "start") ~> (writers[w].pc = "ended")

\* C28 witness: a thread has ended after as many connect attempts as the
\* largest budget allows, each failed with a retryable error, and another
\* has ended after its transaction attempt.
C28_BudgetUsedUp ==
  /\ args.sql_connection_retry = MaxRetryBudget
  /\ \E w, v \in Ids :
        /\ writers[w].pc = "ended"
        /\ writers[w].how = "connect_give_up"
        /\ writers[w].error_code = ER_CON_COUNT_ERROR
        /\ writers[v].pc = "ended"
        /\ writers[v].txn_attempts = 1

\* C29: no write2sql thread releases the pool more than once, so the number
\* of free permits never exceeds args.sql_max_connection and the
\* BoundedSemaphore's release() never raises.
C29_ReleasedAtMostOnce ==
  /\ \A w \in Ids : writers[w].released <= 1
  /\ pool <= args.sql_max_connection

\* C29 witness: every dispatched thread has ended through the finally block
\* of the transaction loop, one on a commit and one on an error, and all
\* permits are free again.
C29_AllPermitsBack ==
  /\ Len(msgs) = MaxMsgs
  /\ \A w \in Ids : writers[w].pc = "ended" /\ writers[w].released = 1
  /\ \E w, v \in Ids :
        /\ writers[w].how = "commit"
        /\ writers[v].how \in TransactionFailures
  /\ pool = args.sql_max_connection

\* C30: a thread calls db_connection.cursor() only on an open storage
\* connection, for every connection-retry budget from 0 on and after every
\* outcome of the connect phase.
C30_CursorOnOpenConnection ==
  \A w \in Ids :
     /\ writers[w].pc = "txn_try" => writers[w].db_connection = "open"
     /\ writers[w].how /= "cursor_on_None"

\* C31: the shared exit_code is monotonic: it starts as ExitCode.OK, and once
\* it is not OK no step sets it back to OK or to another value.
C31_ExitCodeMonotonic ==
  /\ exit_code = OK
  /\ [][ exit_code /= OK => exit_code' = exit_code ]_vars

\* C31 witness: two threads have gone through the handler that sets
\* exit_code, the second with the flag set already, and exit_code holds the
\* value the first one gave it.
C31_SetTwice ==
  /\ exit_code = SQL_CONNECTION_ERROR
  /\ \E w, v \in Ids :
        /\ w /= v
        /\ writers[w].how = "operational_error"
        /\ writers[v].how = "operational_error"

\* C33: wait_for_connect(connect_timeout) ends after at most
\* ceil(connect_timeout / 10) polling iterations, so its timeout never falls
\* a whole step below 0, and it returns True (mqtt_connect hands back the
\* client) exactly if the connected flag became true within them, for
\* timeouts that are multiples of 10 and for those that are not.
C33_WaitForConnectResult ==
  /\ [](pc = "wait_for_connect" => timeout > 0 - PollStep)
  /\ [][ (/\ pc = "wait_for_connect"
           /\ pc' /= "wait_for_connect"
           /\ exit_cause' \notin SignalCauses)
             => (mqttc' = "client" <=> connected) ]_vars

\* C32: in the legacy script a MySQL error while handling one message,
\* raised by connect, execute or commit, is contained: on_message has rolled
\* back where a transaction was open, closed the connection it opened and
\* returned, and the process ends only when loop() returns a code other than
\* 0 (or on SIGTERM).
C32_LegacyErrorContained ==
  legacy.error /= "none"
     => /\ legacy.db /= "open"
        /\ legacy.error \in {"execute", "commit"} => legacy.rollback
        /\ legacy.pc = "exited" => legacy.exit_cause \in {"loop_rc", "sigterm"}

=============================================================================
